---- MODULE Spec2Model ----
(***************************************************************************)
(* Gesture-to-mode state machine and particle transform engine of          *)
(* src/components/ChristmasExperience.tsx (with the UI state of App).      *)
(*                                                                         *)
(* Fixed-point conventions                                                 *)
(*   landmark coordinates, pointer : thousandths (0.05 is 50)              *)
(*   time, delta                   : quarter seconds                       *)
(*   positions, scales             : eighths (35 is 280, 5.0 is 40)        *)
(*   rotations                     : fortieths of a radian                 *)
(*   blend factors                 : a numerator over AlphaDen             *)
(* Products are rounded toward zero where the code rounds to a double.     *)
(***************************************************************************)
EXTENDS Integers, Sequences, FiniteSets, TLC

\* ------------------------------------------------------------------ bounds
NumParticles == 1
MaxUploads == 2
MaxTime == 1
MaxTicks == 16

\* ------------------------------------------------------- program constants
PINCH_THRESHOLD == 50
FIST_THRESHOLD == 250
OPEN_THRESHOLD == 350
FocusSpeed2 == 8
DefaultSpeed2 == 3
ScaleRate2 == 6
AlphaDen == 8
FocusScale == 40
FocusForward == 280
DefaultTextures == 5

Null == 0

\* a tick count past every trial: not within epsilon so far
NotYet == MaxTicks + 1

\* sampled clock deltas: 0.25 s (a slow frame) and 0.5 s (a stalled frame)
Deltas == {1, 2}

TreeMode == {"TREE", "SCATTER", "FOCUS"}

\* ----------------------------------------------------------------- helpers
Abs(a) == IF a < 0 THEN -a ELSE a

\* a / b rounded toward zero, b > 0
TruncDiv(a, b) == IF a >= 0 THEN a \div b ELSE -((-a) \div b)

RECURSIVE SqrtBetween(_, _, _)
\* the r in lo..hi with r * r <= n < (r + 1) * (r + 1), by bisection
SqrtBetween(n, lo, hi) ==
  IF lo >= hi THEN lo
  ELSE LET mid == (lo + hi + 1) \div 2
       IN IF mid * mid <= n THEN SqrtBetween(n, mid, hi) ELSE SqrtBetween(n, lo, mid - 1)

\* floor of the square root
ISqrt(n) == SqrtBetween(n, 0, 2048)

\* Math.hypot(dx, dy)
Hypot(dx, dy) == ISqrt(dx * dx + dy * dy)

\* 64 * sin(k / 8), k = 0..50 (one period)
SinTable == <<0, 8, 16, 23, 31, 37, 44, 49, 54, 58, 61, 63, 64, 64, 63, 61, 58, 54, 50, 44, 38, 32, 24, 17, 9, 1, -7, -15, -22, -30, -37, -43, -48, -53, -57, -60, -63, -64, -64, -63, -61, -59, -55, -50, -45, -39, -33, -25, -18, -10, -2>>

\* Math.sin of an angle given in eighths of a radian, times 64
Sin64(a) == SinTable[(a % 50) + 1]

\* Math.cos, as sin(a + pi/2)
Cos64(a) == Sin64(a + 13)

Vec(x, y, z) == [x |-> x, y |-> y, z |-> z]

Pt(x, y) == [x |-> x, y |-> y]

\* -------------------------------------------------------------- hand frames
\* One detected hand: the seven landmarks handleGestures reads.
HandPose(wrist, offs, pinch, knuckle) ==
  LET tip(i) == Pt(wrist.x + offs[i].x, wrist.y + offs[i].y)
  IN [wrist |-> wrist,
      thumbTip |-> Pt(tip(1).x + pinch.x, tip(1).y + pinch.y),
      indexTip |-> tip(1),
      middleTip |-> tip(2),
      ringTip |-> tip(3),
      pinkyTip |-> tip(4),
      middleKnuckle |-> knuckle]

\* fingertip offsets from the wrist, four tips each at distance r (r a multiple of 5)
Spread(r) == <<Pt(r, 0), Pt(0, r), Pt((3 * r) \div 5, (4 * r) \div 5), Pt(r, 0)>>

\* tips at distances 200, 300, 300, 400: mean 300
MixedSpread == <<Pt(200, 0), Pt(0, 300), Pt(180, 240), Pt(400, 0)>>

\* thumb-to-index offsets: distance 20 (a pinch) and exactly 50 (not a pinch)
PinchOffset == Pt(12, 16)

ApartOffset == Pt(30, 40)

\* every landmark at the same point
DegenerateHand == HandPose(Pt(500, 500), Spread(0), Pt(0, 0), Pt(500, 500))

\* pinching hands: openness 0 and 0.4
PinchHands == {HandPose(Pt(300, 300), s, PinchOffset, Pt(250, 750)) : s \in {Spread(0), Spread(400)}}

\* hands that do not pinch: openness 0, 0.25, 0.3, 0.35 and 0.4
ApartHands == {HandPose(Pt(300, 300), s, ApartOffset, Pt(250, 750)) : s \in {Spread(0), Spread(250), MixedSpread, Spread(350), Spread(400)}}

Hands == PinchHands \cup ApartHands \cup {DegenerateHand}

\* HandLandmarkerResult.landmarks: no hand, or one hand (numHands: 1)
Results == {<<>>} \cup {<<h>> : h \in Hands}

\* --------------------------------------------------------------- variables
VARIABLES
  particlesRef,      \* registry: sequence of ParticleData, the mesh identity is the index
  modeRef,           \* engine mode
  focusTargetRef,    \* mesh identity or Null
  mouseRotationRef,  \* pointer signal
  photoTextures,     \* photoTexturesRef.current.length
  mainGroupRef,      \* [present, rotation]: the parent group, absent when initThree returned early
  elapsed,           \* clockRef: elapsed time
  vision,            \* "starting" | "camera" | "detecting" | "crashed"
  pendingUploads,    \* images chosen whose onload has not yet run
  uploads,           \* files chosen so far
  appState,          \* App state
  currentMode,       \* App state written through setMode
  gestureHint,       \* App state written through setGestureHint
  last,              \* the operation that ran last, its input, and Mode / FocusTarget before it
  trial              \* a blending trial: one coordinate blended at both speeds toward a fixed target

vars == <<particlesRef, modeRef, focusTargetRef, mouseRotationRef, photoTextures, mainGroupRef, elapsed, vision, pendingUploads, uploads, appState, currentMode, gestureHint, last, trial>>

\* ----------------------------------------------------------- scene population
\* samples of Math.random() at line 173, in percent
RandSamples == {2, 50}

\* category drawn by generateParticles from rand
TypeOfRand(rand) ==
  IF rand < 5 THEN "PHOTO"
  ELSE IF rand < 40 THEN "BOX_GREEN"
  ELSE IF rand < 70 THEN "ORNAMENT_GOLD"
  ELSE "ORNAMENT_RED"

\* sampled placements of generated objects (cone position, shell position of radius 25,
\* base scale in [0.5, 1), spin in [0, 2) rad/s, phase in [0, 2 pi))
GenPlacements == <<
  [posTree |-> Vec(16, -40, 24), posScatter |-> Vec(160, 0, -120), baseScale |-> 4, rotationSpeed |-> Vec(16, 8, 12), phase |-> 0],
  [posTree |-> Vec(-24, 40, 0), posScatter |-> Vec(0, 120, 160), baseScale |-> 6, rotationSpeed |-> Vec(4, 12, 8), phase |-> 13] >>

\* one object pushed by generateParticles: placed on the tree at its base scale
GenParticle(i, rand) ==
  LET g == GenPlacements[((i - 1) % Len(GenPlacements)) + 1]
  IN [mesh |-> i, type |-> TypeOfRand(rand),
      posTree |-> g.posTree, posScatter |-> g.posScatter, baseScale |-> g.baseScale,
      rotationSpeed |-> g.rotationSpeed, phase |-> g.phase,
      position |-> g.posTree, rotation |-> Vec(0, 0, 0), scale |-> g.baseScale]

\* the object pushed by addPhotoParticle: placed at its scatter position, scale 1
UploadedParticle(i) ==
  [mesh |-> i, type |-> "PHOTO",
   posTree |-> Vec(32, 16, 0), posScatter |-> Vec(120, 160, 0), baseScale |-> 8,
   rotationSpeed |-> Vec(4, 6, 2), phase |-> 0,
   position |-> Vec(120, 160, 0), rotation |-> Vec(0, 0, 0), scale |-> 8]

\* no blending trial under way
NoTrial == [start |-> 0, target |-> 0, delta |-> 0, eps |-> 0, focusPos |-> 0, defaultPos |-> 0, ticks |-> 0, nFocus |-> NotYet, nDefault |-> NotYet]

Snapshot(op, result, delta) ==
  [op |-> op, result |-> result, delta |-> delta, mode |-> modeRef, focus |-> focusTargetRef]

\* State after the mount effect: initThree, generateParticles, the first animate() call
\* (delta 0), startWebcam in flight.  mounted is containerRef.current at line 52.
Init ==
  \E mounted \in BOOLEAN :
    /\ IF mounted
       THEN /\ particlesRef \in {[i \in 1..NumParticles |-> GenParticle(i, r[i])] : r \in [1..NumParticles -> RandSamples]}
            /\ photoTextures = DefaultTextures
       ELSE /\ particlesRef = <<>>
            /\ photoTextures = 0
    /\ mainGroupRef = [present |-> mounted, rotation |-> Pt(0, 0)]
    /\ modeRef = "TREE"
    /\ focusTargetRef = Null
    /\ mouseRotationRef = Pt(0, 0)
    /\ elapsed = 0
    /\ vision = "starting"
    /\ pendingUploads = 0
    /\ uploads = 0
    /\ appState = "LOADING"
    /\ currentMode = "TREE"
    /\ gestureHint = "Initializing Vision..."
    /\ last = [op |-> "init", result |-> <<>>, delta |-> 0, mode |-> "TREE", focus |-> Null]
    /\ trial = NoTrial

\* ------------------------------------------------------------ vision start-up
StartWebcam(granted) ==
  /\ vision = "starting"
  /\ vision' = "camera"
  /\ gestureHint' = IF granted THEN gestureHint ELSE "Camera Access Denied"
  /\ last' = Snapshot("startWebcam", <<>>, 0)
  /\ UNCHANGED <<particlesRef, modeRef, focusTargetRef, mouseRotationRef, photoTextures, mainGroupRef, elapsed, pendingUploads, uploads, appState, currentMode, trial>>

SetupMediaPipe ==
  /\ vision = "camera"
  /\ vision' = "detecting"
  /\ appState' = "READY"
  /\ gestureHint' = "Show Hand to Control"
  /\ last' = Snapshot("setupMediaPipe", <<>>, 0)
  /\ UNCHANGED <<particlesRef, modeRef, focusTargetRef, mouseRotationRef, photoTextures, mainGroupRef, elapsed, pendingUploads, uploads, currentMode, trial>>

\* -------------------------------------------------------------- classification
PinchDist(lm) == Hypot(lm.thumbTip.x - lm.indexTip.x, lm.thumbTip.y - lm.indexTip.y)

\* four times avgDistToWrist (the sum before the division by 4)
AvgDistToWrist4(lm) ==
  Hypot(lm.indexTip.x - lm.wrist.x, lm.indexTip.y - lm.wrist.y)
  + Hypot(lm.middleTip.x - lm.wrist.x, lm.middleTip.y - lm.wrist.y)
  + Hypot(lm.ringTip.x - lm.wrist.x, lm.ringTip.y - lm.wrist.y)
  + Hypot(lm.pinkyTip.x - lm.wrist.x, lm.pinkyTip.y - lm.wrist.y)

\* { x: handX, y: handY }
HandXY(lm) == Pt((lm.middleKnuckle.x - 500) * (-2), (lm.middleKnuckle.y - 500) * (-2))

\* pinchDist, avgDistToWrist (times 4) and the pointer of every sampled hand, computed once
Features == [h \in Hands |-> [pinchDist |-> PinchDist(h), avg4 |-> AvgDistToWrist4(h), hand |-> HandXY(h)]]

\* mutant: a zero distance is taken for a missing measurement, not for a pinch
IsPinch_Positive(lm) == Features[lm].pinchDist > 0 /\ Features[lm].pinchDist < PINCH_THRESHOLD

IsPinch(lm) == Features[lm].pinchDist < PINCH_THRESHOLD

\* mutant: the fist test includes its threshold
IsFist_Inclusive(lm) == Features[lm].avg4 <= 4 * FIST_THRESHOLD

IsFist(lm) == Features[lm].avg4 < 4 * FIST_THRESHOLD

IsOpen(lm) == Features[lm].avg4 > 4 * OPEN_THRESHOLD

\* particlesRef.current.filter(p => p.type === 'PHOTO'), as mesh identities
Photos(particles) == {i \in 1..Len(particles) : particles[i].type = "PHOTO"}

\* the pinch branch taken when the mode is not yet FOCUS (lines 417-428); the read of
\* particlesRef.current[0].mesh throws on an empty registry, after the mode writes, and the
\* exception leaves detect() before it reschedules itself
EnterFocus ==
  /\ modeRef' = "FOCUS"
  /\ currentMode' = "FOCUS"
  /\ gestureHint' = "Inspecting Memory"
  /\ IF Photos(particlesRef) # {}
     THEN /\ focusTargetRef' \in Photos(particlesRef)
          /\ vision' = vision
     ELSE IF Len(particlesRef) > 0
     THEN /\ focusTargetRef' = particlesRef[1].mesh
          /\ vision' = vision
     ELSE /\ focusTargetRef' = focusTargetRef
          /\ vision' = "crashed"

\* mutant: leaving FOCUS writes the mode but forgets to clear the target
LeaveFocus_KeepsTarget(mode, hint) ==
  /\ modeRef' = mode
  /\ currentMode' = mode
  /\ gestureHint' = hint
  /\ focusTargetRef' = focusTargetRef
  /\ vision' = vision

\* the fist and open-hand branches taken when the mode differs (lines 433-436, 442-445)
LeaveFocus(mode, hint) ==
  /\ modeRef' = mode
  /\ currentMode' = mode
  /\ gestureHint' = hint
  /\ focusTargetRef' = Null
  /\ vision' = vision

\* mutant: the openness tests come before the pinch test
Classify_FistFirst(lm) ==
  IF IsFist(lm) THEN "TREE"
  ELSE IF IsOpen(lm) THEN "SCATTER"
  ELSE IF IsPinch(lm) THEN "FOCUS"
  ELSE "NONE"

\* the branch of the if-chain at lines 414-447 a hand falls in: the mode it asks for, or
\* "NONE" in the dead zone
Classify(lm) ==
  IF IsPinch(lm) THEN "FOCUS"
  ELSE IF IsFist(lm) THEN "TREE"
  ELSE IF IsOpen(lm) THEN "SCATTER"
  ELSE "NONE"

\* mutant: the branch body runs even when the mode is already the one asked for
ShouldApply_Always(target, mode) == target # "NONE"

\* the inner tests modeRef.current !== TreeMode.X (lines 416, 432, 440)
ShouldApply(target, mode) == target # "NONE" /\ target # mode

\* mutant: a missing hand drifts back to the tree
NoHandDetected_ResetsTree ==
  /\ gestureHint' = "No Hand Detected"
  /\ modeRef' = "TREE"
  /\ currentMode' = "TREE"
  /\ focusTargetRef' = Null
  /\ UNCHANGED <<mouseRotationRef, vision>>

\* mutant: a frame without a hand recentres the pointer
NoHandDetected_ResetsPointer ==
  /\ gestureHint' = "No Hand Detected"
  /\ mouseRotationRef' = Pt(0, 0)
  /\ UNCHANGED <<modeRef, focusTargetRef, currentMode, vision>>

\* the early return at lines 373-378
NoHandDetected ==
  /\ gestureHint' = "No Hand Detected"
  /\ UNCHANGED <<modeRef, focusTargetRef, mouseRotationRef, currentMode, vision>>

HandleGestures(result) ==
  /\ vision = "detecting"
  /\ last' = Snapshot("handleGestures", result, 0)
  /\ UNCHANGED <<particlesRef, photoTextures, mainGroupRef, elapsed, pendingUploads, uploads, appState, trial>>
  /\ IF Len(result) = 0
     THEN NoHandDetected
     ELSE LET lm == result[1]
              target == Classify(lm)
          IN /\ mouseRotationRef' = Features[lm].hand
             /\ IF ~ShouldApply(target, modeRef)
                THEN UNCHANGED <<modeRef, focusTargetRef, currentMode, gestureHint, vision>>
                ELSE IF target = "FOCUS" THEN EnterFocus
                ELSE IF target = "TREE" THEN LeaveFocus("TREE", "Restoring Tree")
                ELSE LeaveFocus("SCATTER", "Magic Scatter")

\* --------------------------------------------------------------------- upload
\* handleUpload: n files chosen; each is read and decoded on its own
HandleUpload(n) ==
  /\ uploads + n <= MaxUploads
  /\ uploads' = uploads + n
  /\ pendingUploads' = pendingUploads + n
  /\ last' = Snapshot("handleUpload", <<>>, 0)
  /\ UNCHANGED <<particlesRef, modeRef, focusTargetRef, mouseRotationRef, photoTextures, mainGroupRef, elapsed, vision, appState, currentMode, gestureHint, trial>>

\* mutant: an upload does not take the focus from an object that already has it
AddPhotoParticle_KeepsFocus ==
  /\ particlesRef' = Append(particlesRef, UploadedParticle(Len(particlesRef) + 1))
  /\ modeRef' = "FOCUS"
  /\ currentMode' = "FOCUS"
  /\ focusTargetRef' = IF focusTargetRef = Null THEN Len(particlesRef) + 1 ELSE focusTargetRef

\* mutant: the upload writes the engine mode without reporting it through setMode
AddPhotoParticle_NoSetMode ==
  /\ particlesRef' = Append(particlesRef, UploadedParticle(Len(particlesRef) + 1))
  /\ modeRef' = "FOCUS"
  /\ currentMode' = currentMode
  /\ focusTargetRef' = Len(particlesRef) + 1

\* addPhotoParticle past its early return
AddPhotoParticle ==
  /\ particlesRef' = Append(particlesRef, UploadedParticle(Len(particlesRef) + 1))
  /\ modeRef' = "FOCUS"
  /\ currentMode' = "FOCUS"
  /\ focusTargetRef' = Len(particlesRef) + 1

\* img.onload of one chosen file: the texture is pushed, then addPhotoParticle runs
ImgOnload ==
  /\ pendingUploads > 0
  /\ pendingUploads' = pendingUploads - 1
  /\ photoTextures' = photoTextures + 1
  /\ last' = Snapshot(IF mainGroupRef.present THEN "addPhotoParticle" ELSE "imgOnload", <<>>, 0)
  /\ IF mainGroupRef.present
     THEN AddPhotoParticle
     ELSE UNCHANGED <<particlesRef, modeRef, currentMode, focusTargetRef>>
  /\ UNCHANGED <<mouseRotationRef, mainGroupRef, elapsed, vision, uploads, appState, gestureHint, trial>>

\* --------------------------------------------------------------- render tick
\* Vector3.lerp, one component: c += (t - c) * alpha, alpha = n / AlphaDen
LerpComponent(c, t, n) == c + TruncDiv((t - c) * n, AlphaDen)

\* p.mesh.position.lerp(targetPos, alpha)
LerpVec(v, t, n) == Vec(LerpComponent(v.x, t.x, n), LerpComponent(v.y, t.y, n), LerpComponent(v.z, t.z, n))

\* THREE.MathUtils.lerp(x, y, t) = (1 - t) * x + t * y, t = n / AlphaDen
MathLerp(x, y, n) == TruncDiv((AlphaDen - n) * x + n * y, AlphaDen)

\* delta * speed as a numerator over AlphaDen (speed2 is twice the speed, d quarter seconds)
Alpha(speed2, d) == speed2 * d

\* the group rotation after lines 270-277
GroupRotation(rot, mode, mouse, d) ==
  IF mode \in {"SCATTER", "FOCUS"}
  THEN Pt(rot.x + TruncDiv((TruncDiv(mouse.y, 50) - rot.x) * d, 2),
          rot.y + TruncDiv((TruncDiv(mouse.x * 2, 25) - rot.y) * d, 2))
  ELSE Pt(TruncDiv(rot.x * (4 - d), 4), rot.y + 2 * d)

\* (0, 0, 35) turned by the inverse of the group rotation (Euler order XYZ) (lines 302-303)
Forward(rot) ==
  LET ax == TruncDiv(rot.x, 5)
      ay == TruncDiv(rot.y, 5)
  IN Vec(-TruncDiv(FocusForward * Cos64(ax) * Sin64(ay), 4096),
         TruncDiv(FocusForward * Sin64(ax), 64),
         TruncDiv(FocusForward * Cos64(ax) * Cos64(ay), 4096))

\* orientation left by lookAt(camera) followed by multiply(groupInv) for an object on the
\* camera axis: the inverse group rotation twice (lines 307-309)
FaceCamera(rot) == Vec(-2 * rot.x, -2 * rot.y, 0)

IsFocusObject(p, mode, focus) == mode = "FOCUS" /\ p.mesh = focus

\* targetPos of one object (lines 281-315); a mode outside the three leaves it at the origin
TargetPos(p, mode, focus, rot, time) ==
  IF mode = "TREE"
  THEN Vec(p.posTree.x, p.posTree.y + TruncDiv(Sin64(2 * time + p.phase), 40), p.posTree.z)
  ELSE IF mode = "SCATTER"
  THEN Vec(p.posScatter.x + TruncDiv(Sin64(time + p.phase), 8), p.posScatter.y, p.posScatter.z)
  ELSE IF IsFocusObject(p, mode, focus)
  THEN Forward(rot)
  ELSE Vec(TruncDiv(p.posScatter.x * 6, 5), TruncDiv(p.posScatter.y * 6, 5), TruncDiv(p.posScatter.z * 6, 5))

\* targetScale of one object
TargetScale(p, mode, focus) ==
  IF IsFocusObject(p, mode, focus) THEN FocusScale
  ELSE IF mode = "FOCUS" THEN TruncDiv(p.baseScale, 2)
  ELSE p.baseScale

\* the object's own rotation after the tick: spun in SCATTER (lines 295-296), turned to the
\* camera when it is the focus object, otherwise left alone
SpinRotation(p, mode, focus, rot, d) ==
  IF mode = "SCATTER"
  THEN Vec(p.rotation.x + p.rotationSpeed.x * d, p.rotation.y + p.rotationSpeed.y * d, p.rotation.z)
  ELSE IF IsFocusObject(p, mode, focus)
  THEN FaceCamera(rot)
  ELSE p.rotation

\* speed at line 318, doubled
Speed2(p, mode, focus) == IF IsFocusObject(p, mode, focus) THEN FocusSpeed2 ELSE DefaultSpeed2

\* the body of particlesRef.current.forEach for one object
AnimateParticle(p, mode, focus, rot, time, d) ==
  [p EXCEPT !.position = LerpVec(p.position, TargetPos(p, mode, focus, rot, time), Alpha(Speed2(p, mode, focus), d)),
            !.scale = MathLerp(p.scale, TargetScale(p, mode, focus), Alpha(ScaleRate2, d)),
            !.rotation = SpinRotation(p, mode, focus, rot, d)]

\* one render tick with clock delta d
Animate(d) ==
  /\ mainGroupRef.present
  /\ elapsed < MaxTime
  /\ elapsed' = elapsed + d
  /\ LET rot == GroupRotation(mainGroupRef.rotation, modeRef, mouseRotationRef, d) IN
       /\ mainGroupRef' = [mainGroupRef EXCEPT !.rotation = rot]
       /\ particlesRef' = [i \in 1..Len(particlesRef) |-> AnimateParticle(particlesRef[i], modeRef, focusTargetRef, rot, elapsed', d)]
  /\ last' = Snapshot("animate", <<>>, d)
  /\ UNCHANGED <<modeRef, focusTargetRef, mouseRotationRef, photoTextures, vision, pendingUploads, uploads, appState, currentMode, gestureHint, trial>>

\* ------------------------------------------------------------- specification
Next ==
  \/ \E granted \in BOOLEAN : StartWebcam(granted)
  \/ SetupMediaPipe
  \/ \E result \in Results : HandleGestures(result)
  \/ \E n \in 1..MaxUploads : HandleUpload(n)
  \/ ImgOnload
  \/ \E d \in Deltas : Animate(d)

Spec == Init /\ [][Next]_vars

\* -------------------------------------------------------------- blending trial
\* The position blend of lines 318-319 applied tick after tick to one coordinate, with a
\* constant target and a constant delta, once at the focus speed and once at the default
\* speed; nFocus and nDefault are the ticks after which each first came within eps.
TrialStarts == {0, -80}

TrialTargets == {64, 280}

TrialEps == {2, 4}

Within(c, t, eps) == Abs(t - c) <= eps

FirstHit(n, c, t, eps, ticks) == IF n = NotYet /\ Within(c, t, eps) THEN ticks ELSE n

InitBlend ==
  /\ particlesRef = <<>>
  /\ photoTextures = 0
  /\ mainGroupRef = [present |-> FALSE, rotation |-> Pt(0, 0)]
  /\ modeRef = "TREE"
  /\ focusTargetRef = Null
  /\ mouseRotationRef = Pt(0, 0)
  /\ elapsed = 0
  /\ vision = "starting"
  /\ pendingUploads = 0
  /\ uploads = 0
  /\ appState = "LOADING"
  /\ currentMode = "TREE"
  /\ gestureHint = "Initializing Vision..."
  /\ last = [op |-> "init", result |-> <<>>, delta |-> 0, mode |-> "TREE", focus |-> Null]
  /\ \E start \in TrialStarts, target \in TrialTargets, d \in Deltas, eps \in TrialEps :
       trial = [start |-> start, target |-> target, delta |-> d, eps |-> eps,
                focusPos |-> start, defaultPos |-> start, ticks |-> 0,
                nFocus |-> FirstHit(NotYet, start, target, eps, 0),
                nDefault |-> FirstHit(NotYet, start, target, eps, 0)]

BlendTick ==
  /\ trial.delta > 0
  /\ trial.ticks < MaxTicks
  /\ LET f == LerpComponent(trial.focusPos, trial.target, Alpha(FocusSpeed2, trial.delta))
         g == LerpComponent(trial.defaultPos, trial.target, Alpha(DefaultSpeed2, trial.delta))
         n == trial.ticks + 1
     IN trial' = [trial EXCEPT !.focusPos = f, !.defaultPos = g, !.ticks = n,
                               !.nFocus = FirstHit(trial.nFocus, f, trial.target, trial.eps, n),
                               !.nDefault = FirstHit(trial.nDefault, g, trial.target, trial.eps, n)]
  /\ UNCHANGED <<particlesRef, modeRef, focusTargetRef, mouseRotationRef, photoTextures, mainGroupRef, elapsed, vision, pendingUploads, uploads, appState, currentMode, gestureHint, last>>

NextBlend == BlendTick

SpecBlend == InitBlend /\ [][NextBlend]_vars

\* ---------------------------------------------------------------------- claims
\* the hand of the last classification tick, when it carried one
LastHand == last.op = "handleGestures" /\ Len(last.result) = 1

LastPinch == LastHand /\ Features[last.result[1]].pinchDist < 50

\* the last tick was a pinch that found the mode different from FOCUS
LastEnteredFocus == LastPinch /\ last.mode # "FOCUS"

\* C1: after handleGestures has processed a hand whose thumb-to-index distance is below
\* 0.05, the mode is FOCUS, for every prior mode and every openness.
C1_PinchGivesFocus == LastPinch => modeRef = "FOCUS"

\* a pinch with an open hand (openness above 0.35) turned SCATTER into FOCUS
C1_Witness ==
  /\ LastPinch
  /\ Features[last.result[1]].avg4 > 1400
  /\ last.mode = "SCATTER"
  /\ modeRef = "FOCUS"

\* C2: a hand with pinchDistance >= 0.05 and 0.25 <= openness <= 0.35 leaves the mode at
\* its previous value.
C2_DeadZoneKeepsMode ==
  (/\ LastHand
   /\ Features[last.result[1]].pinchDist >= 50
   /\ Features[last.result[1]].avg4 >= 1000
   /\ Features[last.result[1]].avg4 <= 1400) => modeRef = last.mode

\* a hand with openness exactly 0.25 was processed in SCATTER, which a fist would have left
C2_Witness ==
  /\ LastHand
  /\ Features[last.result[1]].pinchDist >= 50
  /\ Features[last.result[1]].avg4 = 1000
  /\ last.mode = "SCATTER"
  /\ modeRef = "SCATTER"

\* C3: a pinching hand processed while the mode is already FOCUS leaves FocusTarget as it was.
C3_RepinchKeepsTarget == (LastPinch /\ last.mode = "FOCUS") => focusTargetRef = last.focus

\* a pinch arrived in FOCUS with a target set and another card available to choose
C3_Witness ==
  /\ LastPinch
  /\ last.mode = "FOCUS"
  /\ last.focus # Null
  /\ focusTargetRef = last.focus
  /\ Photos(particlesRef) \ {last.focus} # {}

\* C4: a classification tick without landmarks and a render tick both leave Mode and
\* FocusTarget at the values they had before the tick.
C4_NoHandAndRenderKeepState ==
  ((last.op = "handleGestures" /\ Len(last.result) = 0) \/ last.op = "animate")
    => (modeRef = last.mode /\ focusTargetRef = last.focus)

\* a tick without landmarks ran in FOCUS with a target set, after a render tick
C4_Witness ==
  /\ last.op = "handleGestures"
  /\ Len(last.result) = 0
  /\ modeRef = "FOCUS"
  /\ focusTargetRef # Null
  /\ elapsed > 0

\* C5: after a pinch has moved the mode into FOCUS, FocusTarget is a PHOTO object when the
\* registry holds one, the first registry entry when it holds none, and never empty.
C5_TargetChosen ==
  LastEnteredFocus =>
    /\ focusTargetRef # Null
    /\ IF Photos(particlesRef) # {}
       THEN focusTargetRef \in Photos(particlesRef)
       ELSE Len(particlesRef) > 0 /\ focusTargetRef = particlesRef[1].mesh

AllIdentical(lm) ==
  \A q \in {lm.thumbTip, lm.indexTip, lm.middleTip, lm.ringTip, lm.pinkyTip, lm.middleKnuckle} : q = lm.wrist

\* C7 as stated: after a hand whose landmarks are all identical the mode is TREE and no
\* error was raised.
C7_DegenerateIsTree ==
  (LastHand /\ AllIdentical(last.result[1])) => (modeRef = "TREE" /\ vision # "crashed")

\* C7 amended: a hand whose landmarks are all identical has pinchDistance 0, so the pinch
\* test, which comes first, decides: the mode after it is FOCUS, for every prior mode.
C7_DegenerateIsFocus == (LastHand /\ AllIdentical(last.result[1])) => modeRef = "FOCUS"

\* a degenerate hand turned TREE into FOCUS
C7_Witness ==
  /\ LastHand
  /\ AllIdentical(last.result[1])
  /\ Features[last.result[1]].avg4 = 0
  /\ last.mode = "TREE"
  /\ modeRef = "FOCUS"

\* c lies between a and b, ends included
Between(a, c, b) == (a <= c /\ c <= b) \/ (b <= c /\ c <= a)

\* C8: in every render tick each object's new position (every component) and new scale lie
\* between the previous value and the target of that tick.
C8_NoOvershoot ==
  [][last'.op = "animate" =>
       \A i \in 1..Len(particlesRef) :
         LET p == particlesRef[i]
             q == particlesRef'[i]
             t == TargetPos(p, modeRef, focusTargetRef, mainGroupRef'.rotation, elapsed')
         IN /\ Between(p.position.x, q.position.x, t.x)
            /\ Between(p.position.y, q.position.y, t.y)
            /\ Between(p.position.z, q.position.z, t.z)
            /\ Between(p.scale, q.scale, TargetScale(p, modeRef, focusTargetRef))]_vars

\* C9: with the same start, target, delta and epsilon, once the blend at the default speed
\* has come within epsilon, the blend at the focus speed has done so already, after strictly
\* fewer ticks.
C9_FocusConvergesFirst == trial.nDefault # NotYet => trial.nFocus < trial.nDefault

\* C10: a pinch that moves the mode into FOCUS completes without an error and with the
\* FocusTarget written, whatever the registry holds.
C10_EnterFocusTotal == LastEnteredFocus => (vision # "crashed" /\ (modeRef = "FOCUS" => focusTargetRef # Null))

\* the mesh identities held by the registry
Meshes(particles) == {particles[i].mesh : i \in 1..Len(particles)}

\* C11: whenever a render tick can start (the scene exists, line 263), FocusTarget is
\* non-empty exactly when the mode is FOCUS, and a non-empty FocusTarget is the mesh of an
\* object in the registry.
C11_RenderSeesCommitted ==
  mainGroupRef.present =>
    /\ (focusTargetRef # Null) <=> (modeRef = "FOCUS")
    /\ focusTargetRef # Null => focusTargetRef \in Meshes(particlesRef)

\* a render tick ran in FOCUS on an uploaded object while another upload was still decoding
C11_Witness ==
  /\ last.op = "animate"
  /\ modeRef = "FOCUS"
  /\ focusTargetRef = particlesRef[Len(particlesRef)].mesh
  /\ Len(particlesRef) > NumParticles
  /\ pendingUploads > 0

\* C12: a classification tick that carries a hand sets the pointer to
\* (-2 * (x - 0.5), -2 * (y - 0.5)) of that hand's middle knuckle, whatever branch the tick
\* takes; every other step (a tick without landmarks included) leaves the pointer as it was.
C12_PointerFollowsLastHand ==
  [][IF last'.op = "handleGestures" /\ Len(last'.result) = 1
     THEN LET k == last'.result[1].middleKnuckle
          IN mouseRotationRef' = Pt(-2 * (k.x - 500), -2 * (k.y - 500))
     ELSE mouseRotationRef' = mouseRotationRef]_vars

\* a tick without landmarks ran after a hand off centre was seen, and the pointer is still
\* that hand's
C12_Witness ==
  /\ last.op = "handleGestures"
  /\ Len(last.result) = 0
  /\ mouseRotationRef = Pt(500, -500)

\* C13: a render tick in SCATTER advances every object's rotation by spin * delta in x, y
\* and z; a render tick in TREE leaves every object's rotation as it was.
C13_SpinAllAxes ==
  [][last'.op = "animate" =>
       \A i \in 1..Len(particlesRef) :
         LET p == particlesRef[i]
             q == particlesRef'[i]
             d == last'.delta
         IN /\ modeRef = "SCATTER" =>
                 q.rotation = Vec(p.rotation.x + p.rotationSpeed.x * d,
                                  p.rotation.y + p.rotationSpeed.y * d,
                                  p.rotation.z + p.rotationSpeed.z * d)
            /\ modeRef = "TREE" => q.rotation = p.rotation]_vars

\* C14: the mode held by the UI (written through setMode) equals the engine mode.
C14_DisplayedModeIsEngineMode == currentMode = modeRef

\* an upload completed in SCATTER and the UI shows FOCUS
C14_Witness ==
  /\ last.op = "addPhotoParticle"
  /\ last.mode = "SCATTER"
  /\ modeRef = "FOCUS"
  /\ currentMode = "FOCUS"
====
